---- MODULE Spec2Model ----
(***************************************************************************)
(* Model of the puzzle core of src/src/level.rs: the building catalog,     *)
(* the level (board + required building counts), parse_solution and        *)
(* validate_solution.  Text rows are sequences of one-character strings,   *)
(* grids are sequences of rows of cells, HashMaps are functions whose      *)
(* DOMAIN is the key set.  Rust indices are 0-based; TLA+ sequences are    *)
(* 1-based, so cell (r, c) of the code is field[r + 1][c + 1] here.        *)
(***************************************************************************)
EXTENDS Integers, Sequences, FiniteSets, TLC

VARIABLES
    phase,            \* "text" | "constructed" | "panicked" | "validated"
    s,                \* the text rows handed to parse_solution
    solution,         \* the Solution (its placements), once there is one
    level,            \* the Level: building_count and field
    overflow_checks,  \* build profile: TRUE = arithmetic overflow panics
    panic,            \* what parse_solution panicked on, if it did
    result            \* what validate_solution returned, once it ran

vars == <<phase, s, solution, level, overflow_checks, panic, result>>

\* ------------------------------------------------------------------ bounds

\* The most cells of a grid, and the most placements of a solution.
MaxCells == 4
MaxPlacements == 2

\* The most rows of a text, and the most characters of all its rows together.
MaxTextRows == 2
MaxChars == 4

\* i32::MAX, the largest value of the i32 the probes are computed in.
I32Max == 2147483647
I32Min == (-I32Max) - 1

\* ------------------------------------------------------------ the catalog

BuildingType == {"House", "Trash", "Hermit"}

CellType == {"Grass", "Hole"}

\* An unknown byte decoded as a building instead of panicking.
from_char_lenient(c) ==
    CASE c = "1" -> [ok |-> TRUE, building |-> "House"]
      [] c = "T" -> [ok |-> TRUE, building |-> "Trash"]
      [] OTHER   -> [ok |-> TRUE, building |-> "Hermit"]

\* BuildingType::from_char; ok = FALSE is the panic on an unknown byte.
from_char(c) ==
    CASE c = "1" -> [ok |-> TRUE, building |-> "House"]
      [] c = "T" -> [ok |-> TRUE, building |-> "Trash"]
      [] c = "H" -> [ok |-> TRUE, building |-> "Hermit"]
      [] OTHER   -> [ok |-> FALSE, byte |-> c]

\* ---------------------------------------------------------------- the level

rows(lvl) == Len(lvl.field)

\* Level::columns indexes field[0]: an index panic (ok = FALSE) with no rows.
columns(lvl) ==
    IF Len(lvl.field) = 0
    THEN [ok |-> FALSE]
    ELSE [ok |-> TRUE, value |-> Len(lvl.field[1])]

\* The grid filled with the other cell kind.
field_from_size_holes(nrows, ncolumns) ==
    [r \in 1..nrows |-> [c \in 1..ncolumns |-> "Hole"]]

field_from_size(nrows, ncolumns) ==
    [r \in 1..nrows |-> [c \in 1..ncolumns |-> "Grass"]]

\* ------------------------------------------------------------ the parser

Background == {".", "g", "x"}

RECURSIVE parse_loop(_, _, _, _)
parse_loop(text, row, column, placements) ==
    IF row > Len(text)
    THEN [panicked |-> FALSE, placements |-> placements]
    ELSE IF column > Len(text[row])
    THEN parse_loop(text, row + 1, 1, placements)
    ELSE LET c == text[row][column] IN
         IF c \in Background
         THEN parse_loop(text, row, column + 1, placements)
         ELSE LET b == from_char(c) IN
              IF ~b.ok
              THEN [panicked |-> TRUE, byte |-> c,
                    row |-> row - 1, column |-> column - 1]
              ELSE parse_loop(text, row, column + 1,
                       Append(placements,
                              [building |-> b.building,
                               row |-> row - 1, column |-> column - 1]))

\* row and column exchanged in the Placement pushed.
parse_solution_swapped(text) ==
    LET r == parse_loop(text, 1, 1, <<>>) IN
    IF r.panicked THEN r
    ELSE [r EXCEPT !.placements =
              [i \in 1..Len(r.placements) |->
                   [building |-> r.placements[i].building,
                    row |-> r.placements[i].column,
                    column |-> r.placements[i].row]]]

parse_solution(text) == parse_loop(text, 1, 1, <<>>)

\* ---------------------------------------------------------- the validator

DROW == <<1, 0, -1, 0>>

\* The column offsets of purely vertical probes.
DCOL_vertical == <<0, 0, 0, 0>>

DCOL == <<1, 0, -1, 0>>

\* `x as i32` for a usize below 2^32: values above i32::MAX wrap negative.
as_i32(x) == IF x > I32Max THEN ((x - I32Max) - I32Max) - 2 ELSE x

\* i32 `a + b` for b in {-1, 0, 1}: past the ends of the i32 range an
\* overflow-checked build panics (ok = FALSE) and an unchecked one wraps.
i32_add(a, b, checked) ==
    IF a = I32Max /\ b = 1
    THEN IF checked THEN [ok |-> FALSE] ELSE [ok |-> TRUE, value |-> I32Min]
    ELSE IF a = I32Min /\ b = -1
    THEN IF checked THEN [ok |-> FALSE] ELSE [ok |-> TRUE, value |-> I32Max]
    ELSE [ok |-> TRUE, value |-> a + b]

EmptyMap == [b \in {} |-> 0]

\* *building_count.entry(placement.building).or_insert(0) += 1
RECURSIVE count_buildings(_, _, _)
count_buildings(placements, i, map) ==
    IF i > Len(placements)
    THEN map
    ELSE LET b == placements[i].building IN
         count_buildings(placements, i + 1,
             IF b \in DOMAIN map
             THEN [map EXCEPT ![b] = @ + 1]
             ELSE map @@ (b :> 1))

\* The bounds test of one probe, evaluated left to right as || does:
\* "skip" = continue, "inside" = go on to read the cell, "panic" = columns()
\* indexed a grid with no rows.
out_of_bounds(lvl, nrow, ncol) ==
    IF nrow < 0 \/ nrow >= rows(lvl) \/ ncol < 0
    THEN "skip"
    ELSE IF ~columns(lvl).ok
    THEN "panic"
    ELSE IF ncol >= columns(lvl).value THEN "skip" ELSE "inside"

\* The loop `for d in 0..4` for one House; reads collects the cells indexed.
RECURSIVE find_grass(_, _, _, _, _)
find_grass(lvl, placement, d, reads, checked) ==
    IF d > 4
    THEN [panic |-> "none", found_grass |-> FALSE, reads |-> reads]
    ELSE
    LET nrow == i32_add(as_i32(placement.row), DROW[d], checked)
        ncol == i32_add(as_i32(placement.column), DCOL[d], checked)
    IN
    IF ~nrow.ok \/ ~ncol.ok
    THEN [panic |-> "overflow", found_grass |-> FALSE, reads |-> reads]
    ELSE
    LET bounds == out_of_bounds(lvl, nrow.value, ncol.value) IN
    IF bounds = "skip"
    THEN find_grass(lvl, placement, d + 1, reads, checked)
    ELSE IF bounds = "panic"
    THEN [panic |-> "index", found_grass |-> FALSE, reads |-> reads]
    ELSE
    LET cell == <<nrow.value, ncol.value>> IN
    IF nrow.value + 1 > Len(lvl.field)
       \/ ncol.value + 1 > Len(lvl.field[nrow.value + 1])
    THEN [panic |-> "index", found_grass |-> FALSE,
          reads |-> reads \cup {cell}]
    ELSE IF lvl.field[nrow.value + 1][ncol.value + 1] = "Grass"
    THEN [panic |-> "none", found_grass |-> TRUE,
          reads |-> reads \cup {cell}]
    ELSE find_grass(lvl, placement, d + 1, reads \cup {cell}, checked)

\* Stage 2 applied to every building kind.
needs_grass_all(placement) == placement.building \in BuildingType

\* Which placements Stage 2 examines.
needs_grass(placement) == placement.building = "House"

\* found_grass declared outside the loop: once one House has found grass,
\* every later House passes.
RECURSIVE check_houses_sticky(_, _, _, _, _, _)
check_houses_sticky(placements, lvl, index, violations, reads, checked) ==
    IF index >= Len(placements)
    THEN [panic |-> "none", building_missing |-> FALSE,
          placement_violations |-> violations, reads |-> reads]
    ELSE IF ~needs_grass(placements[index + 1])
    THEN check_houses_sticky(placements, lvl, index + 1, violations, reads,
                             checked)
    ELSE
    LET g == find_grass(lvl, placements[index + 1], 1, reads, checked)
        earlier == Cardinality({j \in 1..index : needs_grass(placements[j])})
    IN
    IF g.panic # "none"
    THEN [panic |-> g.panic, reads |-> g.reads]
    ELSE check_houses_sticky(placements, lvl, index + 1,
             IF g.found_grass \/ Len(violations) < earlier
             THEN violations
             ELSE Append(violations,
                         [building_index |-> index, violation |-> "NoGrass"]),
             g.reads, checked)

\* The loop over solution.placements.iter().enumerate().
RECURSIVE check_houses(_, _, _, _, _, _)
check_houses(placements, lvl, index, violations, reads, checked) ==
    IF index >= Len(placements)
    THEN [panic |-> "none", building_missing |-> FALSE,
          placement_violations |-> violations, reads |-> reads]
    ELSE IF ~needs_grass(placements[index + 1])
    THEN check_houses(placements, lvl, index + 1, violations, reads, checked)
    ELSE
    LET g == find_grass(lvl, placements[index + 1], 1, reads, checked) IN
    IF g.panic # "none"
    THEN [panic |-> g.panic, reads |-> g.reads]
    ELSE check_houses(placements, lvl, index + 1,
             IF g.found_grass
             THEN violations
             ELSE Append(violations,
                         [building_index |-> index, violation |-> "NoGrass"]),
             g.reads, checked)

\* Stage 1's comparison `level.building_count != building_count`.
count_mismatch(required, counted) == required # counted

\* No early return: Stage 2 runs although the counts differ.
validate_solution_no_short_circuit(sol, lvl, checked) ==
    LET building_count == count_buildings(sol.placements, 1, EmptyMap)
        r == check_houses(sol.placements, lvl, 0, <<>>, {}, checked)
    IN
    IF count_mismatch(lvl.building_count, building_count) /\ r.panic = "none"
    THEN [r EXCEPT !.building_missing = TRUE]
    ELSE r

validate_solution(sol, lvl, checked) ==
    LET building_count == count_buildings(sol.placements, 1, EmptyMap) IN
    IF count_mismatch(lvl.building_count, building_count)
    THEN [panic |-> "none", building_missing |-> TRUE,
          placement_violations |-> <<>>, reads |-> {}]
    ELSE check_houses(sol.placements, lvl, 0, <<>>, {}, checked)

\* ------------------------------------------------------ the embedded levels

first_level ==
    [level |-> [building_count |-> ("House" :> 5) @@ ("Trash" :> 1),
                field |-> field_from_size(3, 3)],
     text |-> << <<"1", "g", "T">>,
                 <<"1", "1", "g">>,
                 <<"g", "1", "1">> >>]

second_level ==
    [level |-> [building_count |-> ("House" :> 4) @@ ("Hermit" :> 4),
                field |-> field_from_size(3, 3)],
     text |-> << <<"H", "1", "H">>,
                 <<"1", "g", "1">>,
                 <<"H", "1", "H">> >>]

\* ------------------------------------------------------------ input domains

\* Rectangular grids of at most two rows and at most MaxCells cells, those
\* with no rows or no columns included.
Grids ==
    UNION {[1..rc[1] -> [1..rc[2] -> CellType]] :
               rc \in {x \in (0..2) \X (0..MaxCells) :
                           x[1] * x[2] <= MaxCells}}

\* The grids of three rows and three columns.
SquareGrids == [1..3 -> [1..3 -> CellType]]

\* The two grids of a single cell.
OneCellGrids == [1..1 -> [1..1 -> CellType]]

\* Required counts: any subset of the kinds as keys, explicit zeros allowed.
RequiredCounts ==
    UNION {[D -> 0..MaxPlacements] : D \in SUBSET BuildingType}

\* Any kind at any of `positions`.
PlacementsAt(positions) ==
    {[building |-> b, row |-> p[1], column |-> p[2]] :
        b \in BuildingType, p \in positions}

\* Solutions of at most MaxPlacements placements, in any order.
SolutionsOver(placements) ==
    {[placements |-> ps] :
        ps \in UNION {[1..n -> placements] : n \in 0..MaxPlacements}}

\* The positions of the cells of the widest two-row grid.
Positions == (0..1) \X (0..((MaxCells \div 2) - 1))

\* The origin and the positions whose row or column is the largest i32.
ExtremePositions == {<<I32Max, 0>>, <<0, I32Max>>, <<0, 0>>}

\* The building_count that makes Stage 1 pass for sol.
matching_count(sol) == count_buildings(sol.placements, 1, EmptyMap)

\* Bytes of a text row: the background markers, the encodings, one other.
Bytes == Background \cup {"1", "T", "H", "?"}

RECURSIVE Sum(_, _)
Sum(lengths, n) == IF n = 0 THEN 0 ELSE lengths[n] + Sum(lengths, n - 1)

\* The row lengths of a text of k characters in at most MaxTextRows rows.
RowLengths(k) ==
    {l \in UNION {[1..n -> 0..k] : n \in 0..MaxTextRows} : Sum(l, Len(l)) = k}

\* The characters of flat cut into rows of the given lengths.
Rows(flat, lengths) ==
    [i \in 1..Len(lengths) |->
        SubSeq(flat, Sum(lengths, i - 1) + 1, Sum(lengths, i))]

\* ------------------------------------------------------------ state machine

NoPanic == [panicked |-> FALSE]

NoResult == [panic |-> "pending"]

NewSolution == [placements |-> <<>>]

\* first_level() / second_level(): the Level literal and the text to parse.
InitEmbedded ==
    /\ phase = "text"
    /\ \E l \in {first_level, second_level} : s = l.text /\ level = l.level
    /\ solution = NewSolution
    /\ overflow_checks \in BOOLEAN
    /\ panic = NoPanic
    /\ result = NoResult

\* Any required counts against any sequence of kinds, on a one-cell board.
InitCounts ==
    /\ phase = "constructed"
    /\ s = <<>>
    /\ level \in [building_count : RequiredCounts, field : OneCellGrids]
    /\ solution \in SolutionsOver(PlacementsAt({<<0, 0>>}))
    /\ overflow_checks \in BOOLEAN
    /\ panic = NoPanic
    /\ result = NoResult

\* Any grid under any solution, with the counts the solution needs.  No
\* probe of these positions leaves the i32 range, so the build profile is
\* left at the default one.
InitBoards ==
    /\ phase = "constructed"
    /\ s = <<>>
    /\ solution \in SolutionsOver(PlacementsAt(Positions))
    /\ \E f \in Grids :
           level = [building_count |-> matching_count(solution), field |-> f]
    /\ overflow_checks = TRUE
    /\ panic = NoPanic
    /\ result = NoResult

\* One building on the centre cell of a 3 x 3 grid, where every probe falls
\* inside the grid.
InitCentre ==
    /\ phase = "constructed"
    /\ s = <<>>
    /\ solution \in {[placements |-> <<p>>] : p \in PlacementsAt({<<1, 1>>})}
    /\ \E f \in SquareGrids :
           level = [building_count |-> matching_count(solution), field |-> f]
    /\ overflow_checks = TRUE
    /\ panic = NoPanic
    /\ result = NoResult

\* Placements at the top of the i32 range, with the counts they need.
InitExtreme ==
    /\ phase = "constructed"
    /\ s = <<>>
    /\ solution \in SolutionsOver(PlacementsAt(ExtremePositions))
    /\ \E f \in OneCellGrids \cup {<<>>} :
           level = [building_count |-> matching_count(solution), field |-> f]
    /\ overflow_checks \in BOOLEAN
    /\ panic = NoPanic
    /\ result = NoResult

\* Any text handed to parse_solution: at most MaxTextRows rows, of equal or
\* unequal length, holding at most MaxChars characters.
InitText ==
    /\ phase = "text"
    /\ \E k \in 0..MaxChars : \E flat \in [1..k -> Bytes] :
           \E l \in RowLengths(k) : s = Rows(flat, l)
    /\ level = [building_count |-> EmptyMap, field |-> <<>>]
    /\ solution = NewSolution
    /\ overflow_checks = TRUE
    /\ panic = NoPanic
    /\ result = NoResult

Init == InitEmbedded \/ InitCounts \/ InitBoards \/ InitCentre \/ InitExtreme

Parse ==
    /\ phase = "text"
    /\ LET r == parse_solution(s) IN
       IF r.panicked
       THEN /\ phase' = "panicked"
            /\ panic' = r
            /\ UNCHANGED solution
       ELSE /\ phase' = "constructed"
            /\ solution' = [placements |-> r.placements]
            /\ UNCHANGED panic
    /\ UNCHANGED <<s, level, overflow_checks, result>>

Validate ==
    /\ phase = "constructed"
    /\ phase' = "validated"
    /\ result' = validate_solution(solution, level, overflow_checks)
    /\ UNCHANGED <<s, solution, level, overflow_checks, panic>>

Next == Parse \/ Validate

Spec == Init /\ [][Next]_vars

SpecParse == InitText /\ [][Parse]_vars

\* ------------------------------------------------- vocabulary of the claims

Completed == phase = "validated" /\ result.panic = "none"

StageOnePassed == Completed /\ ~result.building_missing

\* How often kind b occurs among the solution's placements.
Occurrences(b) ==
    Cardinality({i \in 1..Len(solution.placements) :
                     solution.placements[i].building = b})

\* The puzzle's required count of kind b, an absent key counting as zero.
Required(b) ==
    IF b \in DOMAIN level.building_count THEN level.building_count[b] ELSE 0

\* The count map of the solution: a key for each kind that occurs.
CountMap ==
    [b \in {solution.placements[i].building :
                i \in 1..Len(solution.placements)} |-> Occurrences(b)]

\* Cell (r, c) of the code's 0-based grid lies inside lvl's grid.
InGrid(lvl, r, c) ==
    /\ r >= 0
    /\ r < Len(lvl.field)
    /\ c >= 0
    /\ c < Len(lvl.field[r + 1])

\* The cell at offset (dr, dc) from placement p lies inside the grid and
\* holds `kind`.
CellAtOffsetIs(lvl, p, dr, dc, kind) ==
    \E rr \in 1..Len(lvl.field) : \E cc \in 1..Len(lvl.field[rr]) :
        /\ (rr - 1) - dr = p.row
        /\ (cc - 1) - dc = p.column
        /\ lvl.field[rr][cc] = kind

NoGrassAt(lvl, p, offsets) ==
    \A o \in offsets : ~CellAtOffsetIs(lvl, p, o[1], o[2], "Grass")

OrthogonalOffsets == {<<1, 0>>, <<0, 1>>, <<-1, 0>>, <<0, -1>>}

VerticalOffsets == {<<1, 0>>, <<0, 0>>, <<-1, 0>>}

DiagonalOffsets == {<<1, 1>>, <<0, 0>>, <<-1, -1>>}

\* The result holds a NoGrass violation with building_index = index.
Flagged(res, index) ==
    \E k \in 1..Len(res.placement_violations) :
        /\ res.placement_violations[k].building_index = index
        /\ res.placement_violations[k].violation = "NoGrass"

IsHouse(i) == solution.placements[i].building = "House"

\* ------------------------------------------------------------------- C1

\* C1: whenever the solution's count map differs from the puzzle's
\* building_count, validate_solution returns building_missing = TRUE with an
\* empty placement_violations list; in every result, building_missing = TRUE
\* implies that placement_violations is empty.
C1_CountMismatchShortCircuits ==
    phase = "validated" =>
        /\ CountMap # level.building_count =>
               /\ result.panic = "none"
               /\ result.building_missing
               /\ result.placement_violations = <<>>
        /\ (result.panic = "none" /\ result.building_missing) =>
               result.placement_violations = <<>>

\* A count mismatch was reported for a solution one of whose Houses has no
\* grass in any probed cell.
C1_Witness ==
    /\ Completed
    /\ result.building_missing
    /\ \E i \in 1..Len(solution.placements) :
           /\ IsHouse(i)
           /\ NoGrassAt(level, solution.placements[i], DiagonalOffsets)

\* ------------------------------------------------------------------- C2

\* C2: validate_solution returns building_missing = FALSE exactly when, for
\* each of House, Trash and Hermit, the number of placements of that kind
\* equals the puzzle's required count, a kind absent from building_count
\* having required count 0.
C2_AbsentKeyCountsAsZero ==
    Completed =>
        (~result.building_missing <=>
             \A b \in BuildingType : Occurrences(b) = Required(b))

\* ------------------------------------------------------------------- C3

\* Some orthogonal neighbour of placement p lies inside the grid and is a Hole.
HasHoleNeighbour(lvl, p) ==
    \E o \in OrthogonalOffsets : CellAtOffsetIs(lvl, p, o[1], o[2], "Hole")

\* C3: with matching counts, a House all of whose orthogonal neighbours
\* inside the grid are Hole (there being at least one) is reported by a
\* NoGrass violation whose building_index is the House's index in the
\* placement sequence.
C3_SurroundedHouseIsFlagged ==
    StageOnePassed =>
        \A i \in 1..Len(solution.placements) :
            (/\ IsHouse(i)
             /\ HasHoleNeighbour(level, solution.placements[i])
             /\ NoGrassAt(level, solution.placements[i], OrthogonalOffsets))
                => Flagged(result, i - 1)

\* ------------------------------------------------------------------- C4

\* C4: validating the pair returned by first_level() yields
\* building_missing = FALSE and no placement violations.
C4_FirstLevelIsValid ==
    (phase = "validated" /\ s = first_level.text
                         /\ level = first_level.level) =>
        /\ result.panic = "none"
        /\ ~result.building_missing
        /\ result.placement_violations = <<>>

\* The first level has been parsed into its six placements and validated.
C4_Witness ==
    /\ phase = "validated"
    /\ s = first_level.text
    /\ level = first_level.level
    /\ Len(solution.placements) = 6

\* ------------------------------------------------------------------- C5

Encodings == {"1", "T", "H"}

\* The kind a building character stands for, as the catalog documents it.
Decoded(c) ==
    CASE c = "1" -> "House" [] c = "T" -> "Trash" [] c = "H" -> "Hermit"

\* The 1-based (row, column) pairs of the characters of text in `chars`.
CellsHolding(text, chars) ==
    {rc \in (1..Len(text)) \X (1..MaxChars) :
         rc[2] <= Len(text[rc[1]]) /\ text[rc[1]][rc[2]] \in chars}

\* Row-major order on (row, column) pairs.
Before(a, b) == a[1] < b[1] \/ (a[1] = b[1] /\ a[2] < b[2])

\* The text holds only background markers and building encodings.
WellFormed(text) == CellsHolding(text, Bytes \ (Background \cup Encodings)) = {}

\* C6: for text over {'.','g','x','1','T','H'}, parse_solution returns one
\* placement per non-background character, with that character's building
\* kind and 0-based (row, column), in row-major order; ["1T","H1"] parses to
\* [(House,0,0),(Trash,0,1),(Hermit,1,0),(House,1,1)].
C6_ParseIsRowMajorScan ==
    (phase # "text" /\ WellFormed(s)) =>
        LET ps == solution.placements
            at(i) == <<ps[i].row + 1, ps[i].column + 1>>
        IN
        /\ phase = "constructed"
        /\ Len(ps) = Cardinality(CellsHolding(s, Encodings))
        /\ \A i \in 1..Len(ps) :
               /\ at(i) \in CellsHolding(s, Encodings)
               /\ ps[i].building = Decoded(s[at(i)[1]][at(i)[2]])
        /\ \A i \in 1..(Len(ps) - 1) : Before(at(i), at(i + 1))
        /\ s = << <<"1", "T">>, <<"H", "1">> >> =>
               ps = << [building |-> "House", row |-> 0, column |-> 0],
                       [building |-> "Trash", row |-> 0, column |-> 1],
                       [building |-> "Hermit", row |-> 1, column |-> 0],
                       [building |-> "House", row |-> 1, column |-> 1] >>

\* Rows of unequal length, background characters among the buildings, and
\* placements on both rows have been parsed.
C6_Witness ==
    /\ phase = "constructed"
    /\ s = << <<"T">>, <<"g", "1", "H">> >>
    /\ Len(solution.placements) = 3

\* ------------------------------------------------------------------- C7

\* The placement sequence rearranged by the permutation sigma of its indices.
Permuted(sigma) ==
    [placements |->
        [i \in 1..Len(solution.placements) |-> solution.placements[sigma[i]]]]

\* C7: for every rearrangement of the solution's placements, validation
\* returns the same building_missing and as many violations, and flags
\* exactly the same placements: index i of the rearranged solution is flagged
\* iff the index its placement had in the original is.
C7_OrderDoesNotMatter ==
    Completed =>
        \A sigma \in Permutations(1..Len(solution.placements)) :
            LET other == validate_solution(Permuted(sigma), level,
                                           overflow_checks)
            IN
            /\ other.panic = "none"
            /\ other.building_missing = result.building_missing
            /\ Len(other.placement_violations)
                   = Len(result.placement_violations)
            /\ \A i \in 1..Len(solution.placements) :
                   Flagged(other, i - 1) <=> Flagged(result, sigma[i] - 1)

\* Two Houses were validated of which only the second is flagged, so the
\* reported index moves with the placement when the two are swapped.
C7_Witness ==
    /\ StageOnePassed
    /\ Len(solution.placements) = 2
    /\ IsHouse(1)
    /\ IsHouse(2)
    /\ ~Flagged(result, 0)
    /\ Flagged(result, 1)

\* ------------------------------------------------------------------- C8

\* The first cell of text, in row-major order, holding an unknown byte.
FirstUnknown(text) ==
    LET bad == CellsHolding(text, Bytes \ (Background \cup Encodings)) IN
    CHOOSE rc \in bad : \A other \in bad \ {rc} : Before(rc, other)

\* C8: from_char panics on every byte outside {'1','T','H'} and on no other;
\* parse_solution panics exactly when the text holds a character outside
\* {'.','g','x','1','T','H'}; it then panics on the first such character in
\* row-major order and no Solution, not even a partial one, is produced.
C8_UnknownEncodingIsFatal ==
    phase # "text" =>
        /\ \A c \in Bytes : from_char(c).ok <=> c \in Encodings
        /\ IF WellFormed(s)
           THEN phase = "constructed" /\ panic = NoPanic
           ELSE /\ phase = "panicked"
                /\ panic.panicked
                /\ panic.row + 1 = FirstUnknown(s)[1]
                /\ panic.column + 1 = FirstUnknown(s)[2]
                /\ panic.byte = s[FirstUnknown(s)[1]][FirstUnknown(s)[2]]
                /\ panic.byte \notin Encodings
                /\ solution = NewSolution

\* The parser panicked on an unknown byte of the second row after it had
\* already decoded a building on the first.
C8_Witness ==
    /\ phase = "panicked"
    /\ s = << <<"1", "g">>, <<"T", "?">> >>
    /\ panic.row = 1
    /\ panic.column = 1

\* ------------------------------------------------------------------- C9

\* Every cell read lies at one of `offsets` from some House of the solution.
ReadsOnlyAt(offsets) ==
    \A cell \in result.reads :
        \E i \in 1..Len(solution.placements) : \E o \in offsets :
            /\ IsHouse(i)
            /\ cell[1] - o[1] = solution.placements[i].row
            /\ cell[2] - o[2] = solution.placements[i].column

\* The Houses flagged are exactly those with no Grass, inside the grid, at
\* any of `offsets`.
FlaggedIffNoGrassAt(offsets) ==
    \A i \in 1..Len(solution.placements) :
        IsHouse(i) =>
            (Flagged(result, i - 1)
                 <=> NoGrassAt(level, solution.placements[i], offsets))

C10_ValidatorNeverAborts ==
    phase = "validated" =>
        /\ \A cell \in result.reads : InGrid(level, cell[1], cell[2])
        /\ result.panic # "index"
        /\ result.panic = "none"

====
